---- MODULE Spec2Model ----
(***************************************************************************)
(* Model of the SmartZone dashboard client: the WebSocketClient of         *)
(* websocket.js (src/unnamed/part_000) with the handlers map.js and ui.js  *)
(* register on it.                                                         *)
(*                                                                         *)
(* The browser runs the client on one event loop: every action below is    *)
(* one handler or callback run to completion; the error event of a failed  *)
(* connection and the close event that follows it in the same task are two *)
(* actions with nothing in between (inTask).  The browser's WebSocket is   *)
(* modelled by its readyState and by the events it dispatches:             *)
(*   - close() on an OPEN socket with no code ends in a close event with   *)
(*     code 1005, close(1000) in one with code 1000;                       *)
(*   - close() on a CONNECTING socket fails the connection: an error event *)
(*     and then a close event with code 1006, whatever code was passed;    *)
(*   - a failed connection dispatches error and then close (1006) in the   *)
(*     same task.                                                          *)
(*                                                                         *)
(* Spec is the connection with every call the host can make; SpecStream is *)
(* the page as the repository runs it, with the frames it receives.        *)
(*                                                                         *)
(* The handlers are those of the MapController (map.js) and UIController   *)
(* (ui.js): what they write is the page, the markers and polygons on the   *)
(* layers, the identity-to-marker maps, the sidebar lists and the chart.   *)
(* SpecRouter is the client with handlers registered one by one;           *)
(* SpecDrivers is the page with the snapshot of loadInitialData and the    *)
(* driver_updates stream; SpecListed applies the projections behind the    *)
(* chart, the driver list and the request markers to arrays of entities.   *)
(* SpecRequests and SpecZones are the page with the requests, the zones of *)
(* its snapshot and stream; SpecFair is the connection without             *)
(* disconnect(), its reconnect timeouts fair.                              *)
(***************************************************************************)
EXTENDS Integers, Sequences, FiniteSets, Bags, TLC

\* ------------------------------------------------------------ bounds
\* sockets superseded by connect()/disconnect() whose close event is pending
MaxStale == 2
\* reconnect timeouts pending at the same time
MaxTimers == 2
\* heartbeat intervals running that this.pingInterval no longer refers to
MaxOrphans == 1
\* handlers registered for one message type
MaxHandlers == 2
\* entities in the collection of a frame or of a snapshot
MaxItems == 2
\* zones or drivers in an array a list or the chart is made of
MaxListed == 11
\* requests in an array updateRequests is called with
MaxRequests == 3

\* requests in an array #requestList is made of
MaxRecent == 6

\* ------------------------------------------------------------ constants
\* this.maxReconnectAttempts
maxReconnectAttempts == 5
\* this.reconnectDelay, in ms
reconnectDelay == 1000
\* the close code onClose takes for a clean close
CLEAN == 1000

VARIABLES
    loaded,             \* DOMContentLoaded has been dispatched
    socket,             \* this.socket: "null" or its readyState
    stale,              \* bag of close codes: sockets no longer this.socket, close event pending
    isConnected,        \* this.isConnected
    reconnectAttempts,  \* this.reconnectAttempts
    timers,             \* bag of pending setTimeout callbacks of attemptReconnect
    pingInterval,       \* this.pingInterval: "undefined", "active" or "cleared"
    orphanIntervals,    \* running intervals this.pingInterval does not refer to
    statusUI,           \* what #connectionStatus shows
    handlers,           \* this.handlers
    inTask,             \* the close event the running task still has to dispatch
    openedBy,           \* history: what called the connect() that created this.socket
                        \* ("hostFromRest": the host, with the client at rest)
    streak,             \* history: reconnect timeouts fired in the current unattended run of
                        \* failures, -1 outside such a run
    last,               \* history: the event handled last and what it did
    markers,            \* this.markers of the MapController: per domain, identity to marker
    layers,             \* this.layers: per domain, the markers or polygons on the layer group
    zonePolygons,       \* this.zonePolygons: identity to polygon
    sidebar,            \* the items of #surgeList, #driverList and #requestList
    demandData,         \* this.demandData of the UIController, the data of the chart
    mapLoad,            \* the fetch loadInitialData awaits: "none" before it is called,
                        \* "zones", "drivers", "requests", or "done"
    sample              \* the array a projection is called with, and what it holds

vars == <<loaded, socket, stale, isConnected, reconnectAttempts, timers,
          pingInterval, orphanIntervals, statusUI, handlers, inTask, openedBy,
          streak, last, markers, layers, zonePolygons, sidebar, demandData,
          mapLoad, sample>>

\* the entities the page holds and shows
page == <<markers, layers, zonePolygons, sidebar, demandData>>

\* the state of the WebSocketClient object and of the browser objects it owns
client == <<socket, stale, isConnected, reconnectAttempts, timers,
            pingInterval, orphanIntervals, statusUI, handlers>>

\* ------------------------------------------------------------ browser WebSocket
\* codes of the close frames the server sends on an open socket: normal closure
\* and going away; a connection that fails or is lost ends with 1006 instead
ServerCloseCodes == {1000, 1001}

\* the code of the close event that follows socket.close(code) on a socket in
\* readyState rs; code 0 stands for close() without arguments
CloseEventCode(rs, code) ==
    IF rs = "CONNECTING" THEN 1006
    ELSE IF code = 0 THEN 1005 ELSE code

\* a close event with this code comes after an error event in the same task
FailedClose(code) == code = 1006

NoTask == [src |-> "none", code |-> 0]

\* ------------------------------------------------------------ frames
MessageTypes == {"driver_updates", "zone_updates", "request_updates"}

\* the shapes of a message's data: the object carrying its collection, or a
\* value without it
DataShapes == {"collection", "missing"}

\* event.data of a frame: json, whether it is JSON text; type and data, the
\* fields of the message; items, the collection data carries (data.drivers,
\* data.zones, data.requests) when it carries one
NotJSON == [json |-> FALSE, type |-> "none", data |-> "none", items |-> <<>>]

\* event.data of the frames the transport delivers, their collections empty
RawFrames ==
    {NotJSON} \cup
    {[json |-> TRUE, type |-> t, data |-> d, items |-> <<>>] :
        t \in MessageTypes \cup {"pong", "unknown"}, d \in DataShapes}

NoFrame == [json |-> FALSE, type |-> "noframe", data |-> "none", items |-> <<>>]

\* keys this.handlers, an object literal, inherits from Object.prototype: the
\* in operator finds them, and their values are not iterable
ObjectPrototypeKeys == {"constructor", "toString"}

\* JSON.parse: the message, or a SyntaxError
ParseJSON(raw) ==
    IF raw.json
    THEN [ok |-> TRUE,
          message |-> [type |-> raw.type, data |-> raw.data, items |-> raw.items]]
    ELSE [ok |-> FALSE,
          message |-> [type |-> "none", data |-> "none", items |-> <<>>]]

\* the handlers map.js and ui.js register, in the order of their script tags
Registrations ==
    << <<"driver_updates", "map.updateDrivers">>,
       <<"zone_updates", "map.updateZones">>,
       <<"request_updates", "map.updateRequests">>,
       <<"zone_updates", "ui.updateZoneStats">> >>

\* a handler throws a TypeError when the data lacks its collection
\* (driversData.drivers.forEach, zonesData.zones.forEach, [...zonesData.zones],
\* requestsData.requests.forEach on undefined)
HandlerThrows(h, data) == data = "missing"

\* ------------------------------------------------------------ entities
\* identities <<head, last four characters>> and payloads of the entities in
\* the collections of frames and snapshots; of a driver the name, location,
\* heading, status and speed are kept, of a request the status and the minute
\* of creation, of a zone the demand level and the surge flag
DriverSamples ==
    {[id |-> i, name |-> <<"Driver", i[2]>>, loc |-> p[1], heading |-> p[2],
      status |-> p[3], speed |-> p[4]] :
        i \in {<<"drv", "0001">>, <<"drv", "0002">>},
        p \in {<<1, 0, "available", 0>>, <<2, 90, "busy", 5>>}}

RequestSamples ==
    {[id |-> <<"req", "0001">>, status |-> "pending", created_at |-> 1],
     [id |-> <<"req", "0001">>, status |-> "completed", created_at |-> 1],
     [id |-> <<"req", "0002">>, status |-> "accepted", created_at |-> 2],
     [id |-> <<"req", "0002">>, status |-> "in_progress", created_at |-> 2]}

ZoneSamples ==
    {[zone_id |-> z, demand_level |-> p[1], is_surge |-> p[2]] :
        z \in {<<"89a", "ffff">>, <<"89b", "ffff">>},
        p \in {<<3, FALSE>>, <<9, TRUE>>}}

\* the arrays of at most n elements of S
ArraysUpTo(S, n) == UNION {[1..k -> S] : k \in 0..n}

DriverCollections == ArraysUpTo(DriverSamples, MaxItems)

\* the driver_updates frames
DriverFrames ==
    {[json |-> TRUE, type |-> "driver_updates", data |-> "collection", items |-> c] :
        c \in DriverCollections}

\* the responses to the fetch of a domain's snapshot: ok with a collection,
\* not ok, or no response (fetch rejects)
Responses(domain, collections) ==
    {[domain |-> domain, outcome |-> "ok", items |-> c] : c \in collections}
    \cup {[domain |-> domain, outcome |-> o, items |-> <<>>] : o \in {"notOk", "failed"}}

\* the responses of a server that has drivers only
DriverLoadResponses ==
    Responses("zones", {<<>>}) \cup Responses("drivers", DriverCollections)
        \cup Responses("requests", {<<>>})

RequestCollections == ArraysUpTo(RequestSamples, MaxItems)

\* the request_updates frames
RequestFrames ==
    {[json |-> TRUE, type |-> "request_updates", data |-> "collection", items |-> c] :
        c \in RequestCollections}

\* the responses of a server that has requests only
RequestLoadResponses ==
    Responses("zones", {<<>>}) \cup Responses("drivers", {<<>>})
        \cup Responses("requests", RequestCollections)

ZoneCollections == ArraysUpTo(ZoneSamples, MaxItems)

\* the zone_updates frames
ZoneFrames ==
    {[json |-> TRUE, type |-> "zone_updates", data |-> "collection", items |-> c] :
        c \in ZoneCollections}

\* the responses of a server that has zones only
ZoneLoadResponses ==
    Responses("zones", ZoneCollections) \cup Responses("drivers", {<<>>})
        \cup Responses("requests", {<<>>})

\* no array
NoSample == [kind |-> "none", items |-> <<>>]

\* arrays of zones, of drivers and of requests to make the chart, the driver
\* list and the request markers of; the i-th entity has the identity
\* <<head, i>>, and what the lists do not look at depends on the rest
ListedZones ==
    {[kind |-> "zones",
      items |-> [i \in 1..Len(levels) |->
                    [zone_id |-> <<"89", i>>, demand_level |-> levels[i],
                     is_surge |-> levels[i] > 5]]] :
        levels \in ArraysUpTo({3, 9}, MaxListed)}

ListedDrivers ==
    {[kind |-> "drivers",
      items |-> [i \in 1..Len(statuses) |->
                    [id |-> <<"drv", i>>, name |-> <<"Driver", i>>, loc |-> i,
                     heading |-> 0, status |-> statuses[i], speed |-> 0]]] :
        statuses \in ArraysUpTo({"available", "busy"}, MaxListed)}

ListedRequests ==
    {[kind |-> "requests",
      items |-> [i \in 1..Len(rs) |->
                    [id |-> <<"req", i>>, status |-> rs[i][1], created_at |-> rs[i][2]]]] :
        rs \in ArraysUpTo({"pending", "accepted", "in_progress", "completed"}
                              \X {1, 2}, MaxRequests)}

\* arrays of requests, active and completed ones created at two times, of the
\* lengths at which there are as many active requests as #requestList shows,
\* and more
ListedRecent ==
    {[kind |-> "requests",
      items |-> [i \in 1..Len(rs) |->
                    [id |-> <<"req", i>>, status |-> rs[i][1], created_at |-> rs[i][2]]]] :
        rs \in UNION {[1..k -> {"pending", "completed"} \X {1, 2}] : k \in 5..MaxRecent}}

\* the frames a client with handlers registered one by one is sent: of each
\* domain one with a collection of one entity, and frames without handlers
RouterFrames ==
    {NotJSON,
     [json |-> TRUE, type |-> "driver_updates", data |-> "missing", items |-> <<>>]}
    \cup {[json |-> TRUE, type |-> t, data |-> "missing", items |-> <<>>] :
             t \in {"pong", "unknown", "constructor"}}
    \cup {[json |-> TRUE, type |-> "driver_updates", data |-> "collection",
           items |-> <<d>>] : d \in {x \in DriverSamples : x.loc = 1 /\ x.id[2] = "0001"}}
    \cup {[json |-> TRUE, type |-> "zone_updates", data |-> "collection",
           items |-> <<z>>] : z \in {x \in ZoneSamples : x.is_surge /\ x.zone_id[1] = "89a"}}
    \cup {[json |-> TRUE, type |-> "request_updates", data |-> "collection",
           items |-> <<r>>] : r \in {x \in RequestSamples : x.status = "pending"}}

\* the calls of addMessageHandler a host page makes: those of map.js and
\* ui.js, and one for a type the client does not know
HostRegistrations ==
    {<<"driver_updates", "map.updateDrivers">>,
     <<"zone_updates", "map.updateZones">>,
     <<"request_updates", "map.updateRequests">>,
     <<"zone_updates", "ui.updateZoneStats">>,
     <<"unknown", "host.onUnknown">>}

\* ------------------------------------------------------------ history
\* op: the event handled; src: the socket a close or error event belongs to
\* ("socket": this.socket, "stale": a superseded one); code: the close code;
\* frame, calls: the frame onMessage took and the handlers it invoked, in order;
\* escaped: an exception left the handler; send: what a heartbeat tick did;
\* wasConnected: this.isConnected when the event arrived
NoEvent ==
    [op |-> "none", src |-> "none", code |-> 0, frame |-> NoFrame,
     calls |-> <<>>, escaped |-> FALSE, send |-> "none", wasConnected |-> FALSE]

Event(op, src, code) ==
    [NoEvent EXCEPT !.op = op, !.src = src, !.code = code,
                    !.wasConnected = isConnected]

\* ------------------------------------------------------------ arrays
\* the comparator of updateDriverList with a fault: the signs swapped
AvailableLast(a, b) ==
    IF a.status = "available" /\ b.status # "available" THEN 1
    ELSE IF a.status # "available" /\ b.status = "available" THEN -1
    ELSE 0

\* the comparator of updateDriverList: available first
AvailableFirst(a, b) ==
    IF a.status = "available" /\ b.status # "available" THEN -1
    ELSE IF a.status # "available" /\ b.status = "available" THEN 1
    ELSE 0

\* the comparator of updateRequestList with a fault: the operands swapped
OldestFirst(a, b) == a.created_at - b.created_at

\* the comparator of updateRequestList: newest first
NewestFirst(a, b) == b.created_at - a.created_at

\* the comparator of updateSurgeList and updateZoneStats: highest demand first
HighestDemandFirst(a, b) == b.demand_level - a.demand_level

\* the comparator function passed to sort, by name
Compare(cmp, a, b) ==
    CASE cmp = "AvailableFirst" -> AvailableFirst(a, b)
      [] cmp = "NewestFirst" -> NewestFirst(a, b)
      [] cmp = "HighestDemandFirst" -> HighestDemandFirst(a, b)

\* Array.prototype.sort(cmp) with a fault: not stable, an element goes before
\* those it compares equal to
SortWithTiesReversed(s, cmp) ==
    LET ins[k \in 0..Len(s)] ==
            IF k = 0 THEN <<>>
            ELSE LET sorted == ins[k - 1]
                     greater == {i \in 1..Len(sorted) : Compare(cmp, sorted[i], s[k]) >= 0}
                     at == IF greater = {} THEN k
                           ELSE CHOOSE i \in greater : \A j \in greater : i <= j
                 IN  SubSeq(sorted, 1, at - 1) \o <<s[k]>> \o SubSeq(sorted, at, k - 1)
    IN  ins[Len(s)]

\* Array.prototype.sort(cmp), cmp a consistent comparator: the sort is stable,
\* every element going before the first one that compares greater than it
SortWith(s, cmp) ==
    LET ins[k \in 0..Len(s)] ==
            IF k = 0 THEN <<>>
            ELSE LET sorted == ins[k - 1]
                     greater == {i \in 1..Len(sorted) : Compare(cmp, sorted[i], s[k]) > 0}
                     at == IF greater = {} THEN k
                           ELSE CHOOSE i \in greater : \A j \in greater : i <= j
                 IN  SubSeq(sorted, 1, at - 1) \o <<s[k]>> \o SubSeq(sorted, at, k - 1)
    IN  ins[Len(s)]

\* Array.prototype.slice(0, n)
SliceTo(s, n) == SubSeq(s, 1, IF Len(s) < n THEN Len(s) ELSE n)

\* obj[key] = value on an object used as a map
Put(map, key, value) == (key :> value) @@ map

\* id.slice(-4) of an identity <<head, last four characters>>
Last4(id) == id[2]

\* new Date(t).toLocaleTimeString(), t in minutes: the time of day
TimeOfDay(t) == t % 1440

\* ------------------------------------------------------------ WebSocketClient
RECURSIVE Pow(_, _)
Pow(b, e) == IF e = 0 THEN 1 ELSE b * Pow(b, e - 1)

\* Delay with a fault: the exponent is attempts, not attempts - 1
DelayNoDecrement(attempts) ==
    (reconnectDelay * 16 * Pow(3, attempts)) \div Pow(2, attempts)

\* this.reconnectDelay * Math.pow(1.5, attempts - 1), in 1/16 ms (exact up to
\* the 8th attempt)
Delay(attempts) ==
    (reconnectDelay * 16 * Pow(3, attempts - 1)) \div Pow(2, attempts - 1)

\* updateConnectionStatus(connected)
UpdateConnectionStatus(connected) ==
    statusUI' = IF connected THEN "connected" ELSE "disconnected"

\* clearInterval(this.pingInterval)
ClearPingInterval ==
    pingInterval' = IF pingInterval = "active" THEN "cleared" ELSE pingInterval

\* startPingInterval(): a new interval, whose id overwrites this.pingInterval
StartPingInterval ==
    /\ orphanIntervals' =
           IF pingInterval = "active" THEN orphanIntervals + 1 ELSE orphanIntervals
    /\ pingInterval' = "active"

\* connect(): close the existing socket if any, open a new one
ConnectBody ==
    /\ stale' = IF socket \in {"CONNECTING", "OPEN"}
                THEN stale (+) SetToBag({CloseEventCode(socket, 0)})
                ELSE stale
    /\ socket' = "CONNECTING"

\* attemptReconnect() with a fault: the ceiling compared with > instead of >=
AttemptReconnectOffByOne ==
    IF reconnectAttempts > maxReconnectAttempts
    THEN UNCHANGED <<reconnectAttempts, timers>>
    ELSE /\ reconnectAttempts' = reconnectAttempts + 1
         /\ timers' = timers (+) SetToBag({[attempt |-> reconnectAttempts + 1,
                                            delay |-> Delay(reconnectAttempts + 1)]})

\* attemptReconnect()
AttemptReconnect ==
    IF reconnectAttempts >= maxReconnectAttempts
    THEN UNCHANGED <<reconnectAttempts, timers>>
    ELSE /\ reconnectAttempts' = reconnectAttempts + 1
         /\ timers' = timers (+) SetToBag({[attempt |-> reconnectAttempts + 1,
                                            delay |-> Delay(reconnectAttempts + 1)]})

\* onOpen() with a fault: the attempt counter is left as it is
OnOpenKeepsCounter ==
    /\ isConnected' = TRUE
    /\ UNCHANGED reconnectAttempts
    /\ UpdateConnectionStatus(TRUE)
    /\ StartPingInterval

\* onOpen()
OnOpen ==
    /\ isConnected' = TRUE
    /\ reconnectAttempts' = 0
    /\ UpdateConnectionStatus(TRUE)
    /\ StartPingInterval

\* onClose(event) with a fault: the close code is not looked at
OnCloseAnyCode(code) ==
    /\ isConnected' = FALSE
    /\ UpdateConnectionStatus(FALSE)
    /\ ClearPingInterval
    /\ AttemptReconnect

\* onClose(event) with a fault: the heartbeat interval is left running
OnCloseKeepsHeartbeat(code) ==
    /\ isConnected' = FALSE
    /\ UpdateConnectionStatus(FALSE)
    /\ UNCHANGED pingInterval
    /\ IF code # CLEAN
       THEN AttemptReconnect
       ELSE UNCHANGED <<reconnectAttempts, timers>>

\* onClose(event), event.code = code
OnClose(code) ==
    /\ isConnected' = FALSE
    /\ UpdateConnectionStatus(FALSE)
    /\ ClearPingInterval
    /\ IF code # CLEAN
       THEN AttemptReconnect
       ELSE UNCHANGED <<reconnectAttempts, timers>>

\* onError(error)
OnError == UpdateConnectionStatus(FALSE)

\* addMessageHandler(type, handler) with a fault: a type the client does not
\* know gets a list of its own
AddMessageHandlerAnyType(hs, type, handler) ==
    IF type \in DOMAIN hs THEN [hs EXCEPT ![type] = Append(@, handler)]
    ELSE (type :> <<handler>>) @@ hs

\* addMessageHandler(type, handler)
AddMessageHandler(hs, type, handler) ==
    IF type \in DOMAIN hs THEN [hs EXCEPT ![type] = Append(@, handler)] ELSE hs

RECURSIVE RegisterAll(_, _)
RegisterAll(hs, regs) ==
    IF regs = <<>> THEN hs
    ELSE RegisterAll(AddMessageHandler(hs, Head(regs)[1], Head(regs)[2]), Tail(regs))

\* the for loop of onMessage over the handlers of one type: the calls made and
\* whether one threw, which ends the loop
RECURSIVE RunHandlers(_, _)
RunHandlers(hs, data) ==
    IF hs = <<>> THEN [calls |-> <<>>, threw |-> FALSE]
    ELSE IF HandlerThrows(Head(hs), data)
         THEN [calls |-> <<Head(hs)>>, threw |-> TRUE]
         ELSE LET r == RunHandlers(Tail(hs), data)
              IN  [calls |-> <<Head(hs)>> \o r.calls, threw |-> r.threw]

\* the try block of onMessage with a fault: only the handler registered first
\* is called
TryBlockFirstHandlerOnly(hs, raw) ==
    LET p == ParseJSON(raw)
    IN  IF ~p.ok THEN [calls |-> <<>>, threw |-> TRUE]
        ELSE IF p.message.type = "pong" THEN [calls |-> <<>>, threw |-> FALSE]
        ELSE IF p.message.type \in DOMAIN hs
             THEN RunHandlers(SliceTo(hs[p.message.type], 1), p.message.data)
        ELSE IF p.message.type \in ObjectPrototypeKeys
             THEN [calls |-> <<>>, threw |-> TRUE]
             ELSE [calls |-> <<>>, threw |-> FALSE]

\* the try block of onMessage
TryBlock(hs, raw) ==
    LET p == ParseJSON(raw)
    IN  IF ~p.ok THEN [calls |-> <<>>, threw |-> TRUE]
        ELSE IF p.message.type = "pong" THEN [calls |-> <<>>, threw |-> FALSE]
        ELSE IF p.message.type \in DOMAIN hs
             THEN RunHandlers(hs[p.message.type], p.message.data)
        ELSE IF p.message.type \in ObjectPrototypeKeys
             THEN [calls |-> <<>>, threw |-> TRUE]
             ELSE [calls |-> <<>>, threw |-> FALSE]

\* onMessage(event) with a fault: no catch clause
OnMessageRunNoCatch(hs, raw) ==
    LET r == TryBlock(hs, raw)
    IN  [calls |-> r.calls, escaped |-> r.threw]

\* onMessage(event): the catch clause logs whatever the try block threw
OnMessageRun(hs, raw) ==
    LET r == TryBlock(hs, raw)
    IN  [calls |-> r.calls, escaped |-> FALSE]

\* the interval callback of startPingInterval with sendMessage: what
\* this.socket.send does on a socket in each readyState
PingOutcome ==
    IF ~isConnected THEN [send |-> "none", escaped |-> FALSE]
    ELSE CASE socket = "OPEN" -> [send |-> "sent", escaped |-> FALSE]
           [] socket = "CONNECTING" -> [send |-> "InvalidStateError", escaped |-> TRUE]
           [] socket = "CLOSED" -> [send |-> "discarded", escaped |-> FALSE]
           [] OTHER -> [send |-> "TypeError", escaped |-> TRUE]

\* ------------------------------------------------------------ MapController: drivers
\* A marker or polygon is an object; a layer group is the sequence of the
\* objects added to it, and an identity-to-marker map refers to one of them by
\* its place in the layer.  of: the identity of the entity it was created for.

\* Number.prototype.toFixed(1) of a whole number: its digits and one decimal
ToFixed1(n) == <<n, 0>>

\* createDriverMarker(driver)
CreateDriverMarker(driver) ==
    [of |-> driver.id, latlng |-> driver.loc, heading |-> driver.heading,
     status |-> driver.status,
     popup |-> [name |-> driver.name, status |-> driver.status,
                speed |-> ToFixed1(driver.speed)]]

\* the update branch with a fault: the icon, which shows heading and status,
\* is not replaced
MoveDriverMarkerKeepsIcon(marker, driver) ==
    [marker EXCEPT
        !.latlng = driver.loc,
        !.popup = [name |-> driver.name, status |-> driver.status,
                   speed |-> IF driver.speed # 0 THEN ToFixed1(driver.speed)
                             ELSE <<0>>]]

\* the branch of updateDrivers for a driver that has a marker: setLatLng,
\* setIcon and setContent of the popup
MoveDriverMarker(marker, driver) ==
    [marker EXCEPT
        !.latlng = driver.loc,
        !.heading = driver.heading,
        !.status = driver.status,
        !.popup = [name |-> driver.name, status |-> driver.status,
                   speed |-> IF driver.speed # 0 THEN ToFixed1(driver.speed)
                             ELSE <<0>>]]

\* updateDriverList(drivers): the items of #driverList
UpdateDriverList(drivers) ==
    LET topDrivers == SliceTo(SortWith(drivers, "AvailableFirst"), 10)
    IN  [i \in 1..Len(topDrivers) |->
            [name |-> topDrivers[i].name, status |-> topDrivers[i].status]]

\* the forEach of renderDrivers over what is left of the collection
RECURSIVE AddDriverMarkers(_, _)
AddDriverMarkers(st, drivers) ==
    IF drivers = <<>> THEN st
    ELSE LET layer == Append(st.layer, CreateDriverMarker(Head(drivers)))
         IN  AddDriverMarkers(
                 [markers |-> Put(st.markers, Head(drivers).id, Len(layer)),
                  layer |-> layer],
                 Tail(drivers))

\* renderDrivers(drivers)
RenderDrivers(pg, drivers) ==
    LET st == AddDriverMarkers([markers |-> <<>>, layer |-> <<>>], drivers)
    IN  [pg EXCEPT !.markers.drivers = st.markers,
                   !.layers.drivers = st.layer,
                   !.sidebar.driverList = UpdateDriverList(drivers)]

\* the forEach of updateDrivers over what is left of the collection
RECURSIVE UpsertDriverMarkers(_, _)
UpsertDriverMarkers(st, drivers) ==
    IF drivers = <<>> THEN st
    ELSE LET driver == Head(drivers)
         IN  IF driver.id \in DOMAIN st.markers
             THEN UpsertDriverMarkers(
                      [st EXCEPT !.layer[st.markers[driver.id]] =
                                      MoveDriverMarker(@, driver)],
                      Tail(drivers))
             ELSE LET layer == Append(st.layer, CreateDriverMarker(driver))
                  IN  UpsertDriverMarkers(
                          [markers |-> Put(st.markers, driver.id, Len(layer)),
                           layer |-> layer],
                          Tail(drivers))

\* updateDrivers(driversData), drivers = driversData.drivers
UpdateDrivers(pg, drivers) ==
    LET st == UpsertDriverMarkers(
                  [markers |-> pg.markers.drivers, layer |-> pg.layers.drivers],
                  drivers)
    IN  [pg EXCEPT !.markers.drivers = st.markers,
                   !.layers.drivers = st.layer,
                   !.sidebar.driverList = UpdateDriverList(drivers)]

\* ------------------------------------------------------------ MapController: requests
\* the status test with a fault: 'accepted' is missing from the list
IsActiveNoAccepted(request) == request.status \in {"pending", "in_progress"}

\* ['pending', 'accepted', 'in_progress'].includes(request.status)
IsActive(request) == request.status \in {"pending", "accepted", "in_progress"}

\* createRequestMarker(request)
CreateRequestMarker(request) ==
    [of |-> request.id,
     popup |-> [status |-> request.status, time |-> TimeOfDay(request.created_at)]]

\* what #requestList shows when there is no active request
NoActiveRequests == <<[id |-> "none", status |-> "No active requests", time |-> 0]>>

\* activeRequests of updateRequestList, before it is sorted
ActiveRequests(requests) == SelectSeq(requests, IsActive)

\* updateRequestList(requests): the items of #requestList
UpdateRequestList(requests) ==
    LET activeRequests == ActiveRequests(requests)
        topRequests == SliceTo(SortWith(activeRequests, "NewestFirst"), 5)
    IN  IF Len(topRequests) = 0 THEN NoActiveRequests
        ELSE [i \in 1..Len(topRequests) |->
                 [id |-> Last4(topRequests[i].id), status |-> topRequests[i].status,
                  time |-> TimeOfDay(topRequests[i].created_at)]]

\* the forEach of renderRequests and of updateRequests over what is left of
\* the collection
RECURSIVE AddRequestMarkers(_, _)
AddRequestMarkers(st, requests) ==
    IF requests = <<>> THEN st
    ELSE IF IsActive(Head(requests))
         THEN LET layer == Append(st.layer, CreateRequestMarker(Head(requests)))
              IN  AddRequestMarkers(
                      [markers |-> Put(st.markers, Head(requests).id, Len(layer)),
                       layer |-> layer],
                      Tail(requests))
         ELSE AddRequestMarkers(st, Tail(requests))

\* renderRequests(requests)
RenderRequests(pg, requests) ==
    LET st == AddRequestMarkers([markers |-> <<>>, layer |-> <<>>], requests)
    IN  [pg EXCEPT !.markers.requests = st.markers,
                   !.layers.requests = st.layer,
                   !.sidebar.requestList = UpdateRequestList(requests)]

\* updateRequests(requestsData) with a fault: the layer and the map are not
\* cleared first
UpdateRequestsKeepsMarkers(pg, requests) ==
    LET st == AddRequestMarkers([markers |-> pg.markers.requests,
                                 layer |-> pg.layers.requests], requests)
    IN  [pg EXCEPT !.markers.requests = st.markers,
                   !.layers.requests = st.layer,
                   !.sidebar.requestList = UpdateRequestList(requests)]

\* updateRequests(requestsData), requests = requestsData.requests
UpdateRequests(pg, requests) ==
    LET st == AddRequestMarkers([markers |-> <<>>, layer |-> <<>>], requests)
    IN  [pg EXCEPT !.markers.requests = st.markers,
                   !.layers.requests = st.layer,
                   !.sidebar.requestList = UpdateRequestList(requests)]

\* ------------------------------------------------------------ MapController: zones
\* getZoneColor(demandLevel): the index into this.demandColors
GetZoneColor(demandLevel) ==
    IF demandLevel > 10 THEN 10 ELSE IF demandLevel < 0 THEN 0 ELSE demandLevel

\* the popup text of a zone
ZonePopup(zone) ==
    [id |-> Last4(zone.zone_id), level |-> zone.demand_level, surge |-> zone.is_surge]

\* the polygon renderZones creates for a zone
CreateZonePolygon(zone) ==
    [of |-> zone.zone_id, color |-> GetZoneColor(zone.demand_level),
     surge |-> zone.is_surge, popup |-> ZonePopup(zone)]

\* the forEach of renderZones over what is left of the collection
RECURSIVE AddZonePolygons(_, _)
AddZonePolygons(st, zones) ==
    IF zones = <<>> THEN st
    ELSE LET layer == Append(st.layer, CreateZonePolygon(Head(zones)))
         IN  AddZonePolygons(
                 [polygons |-> Put(st.polygons, Head(zones).zone_id, Len(layer)),
                  layer |-> layer],
                 Tail(zones))

\* renderZones(zones)
RenderZones(pg, zones) ==
    LET st == AddZonePolygons([polygons |-> <<>>, layer |-> <<>>], zones)
    IN  [pg EXCEPT !.zonePolygons = st.polygons, !.layers.zones = st.layer]

\* what #surgeList shows when there is no surge zone
NoSurgeZones == <<[id |-> "none", level |-> 0]>>

\* updateSurgeList(zones): the items of #surgeList
UpdateSurgeList(zones) ==
    LET surgeZones == SortWith(SelectSeq(zones, LAMBDA zone : zone.is_surge),
                               "HighestDemandFirst")
    IN  IF Len(surgeZones) = 0 THEN NoSurgeZones
        ELSE [i \in 1..Len(surgeZones) |->
                 [id |-> Last4(surgeZones[i].zone_id),
                  level |-> surgeZones[i].demand_level]]

\* the forEach of updateZones over what is left of the collection: only a
\* zone that has a polygon is taken
RECURSIVE RestyleZonePolygons(_, _)
RestyleZonePolygons(st, zones) ==
    IF zones = <<>> THEN st
    ELSE LET zone == Head(zones)
         IN  IF zone.zone_id \in DOMAIN st.polygons
             THEN RestyleZonePolygons(
                      [st EXCEPT !.layer[st.polygons[zone.zone_id]] =
                          [@ EXCEPT !.color = GetZoneColor(zone.demand_level),
                                    !.surge = zone.is_surge,
                                    !.popup = ZonePopup(zone)]],
                      Tail(zones))
             ELSE RestyleZonePolygons(st, Tail(zones))

\* updateZones(zonesData), zones = zonesData.zones
UpdateZones(pg, zones) ==
    LET st == RestyleZonePolygons(
                  [polygons |-> pg.zonePolygons, layer |-> pg.layers.zones], zones)
    IN  [pg EXCEPT !.layers.zones = st.layer,
                   !.sidebar.surgeList = UpdateSurgeList(zones)]

\* ------------------------------------------------------------ UIController
\* sortedZones and topZones of updateZoneStats, n the 10 of slice(0, 10)
TopByDemand(zones, n) == SliceTo(SortWith(zones, "HighestDemandFirst"), n)

\* updateZoneStats(zonesData), zones = zonesData.zones: labels, data and bar
\* colours of the chart
UpdateZoneStats(pg, zones) ==
    LET topZones == TopByDemand(zones, 10)
    IN  [pg EXCEPT !.demandData =
            [labels |-> [i \in 1..Len(topZones) |-> Last4(topZones[i].zone_id)],
             data |-> [i \in 1..Len(topZones) |-> topZones[i].demand_level],
             surge |-> [i \in 1..Len(topZones) |-> topZones[i].is_surge]]]

\* ------------------------------------------------------------ handlers on the page
\* the MapController and the UIController with the DOM elements they write
Page ==
    [markers |-> markers, layers |-> layers, zonePolygons |-> zonePolygons,
     sidebar |-> sidebar, demandData |-> demandData]

\* new MapController(), new UIController() on the document of index.html
NewPage ==
    [markers |-> [drivers |-> <<>>, requests |-> <<>>],
     layers |-> [zones |-> <<>>, drivers |-> <<>>, requests |-> <<>>],
     zonePolygons |-> <<>>,
     sidebar |-> [surgeList |-> <<>>, driverList |-> <<>>, requestList |-> <<>>],
     demandData |-> [labels |-> <<>>, data |-> <<>>, surge |-> <<>>]]

\* the page after the step is pg
SetPage(pg) ==
    /\ markers' = pg.markers
    /\ layers' = pg.layers
    /\ zonePolygons' = pg.zonePolygons
    /\ sidebar' = pg.sidebar
    /\ demandData' = pg.demandData

\* one registered handler called with message.data: the page it leaves and
\* the collection in message.data, which the next handler of the frame is
\* given (updateDriverList sorts the array it is passed)
CallHandler(h, pg, items) ==
    CASE h = "map.updateDrivers" ->
             [page |-> UpdateDrivers(pg, items),
              items |-> SortWith(items, "AvailableFirst")]
      [] h = "map.updateZones" -> [page |-> UpdateZones(pg, items), items |-> items]
      [] h = "map.updateRequests" ->
             [page |-> UpdateRequests(pg, items), items |-> items]
      [] h = "ui.updateZoneStats" ->
             [page |-> UpdateZoneStats(pg, items), items |-> items]
      [] OTHER -> [page |-> pg, items |-> items]

\* the handlers onMessage invoked, in order, applied to the page; one that
\* throws does so before it has written anything
RECURSIVE ApplyCalls(_, _, _)
ApplyCalls(calls, pg, message) ==
    IF calls = <<>> THEN pg
    ELSE IF HandlerThrows(Head(calls), message.data) THEN pg
    ELSE LET r == CallHandler(Head(calls), pg, message.items)
         IN  ApplyCalls(Tail(calls), r.page, [message EXCEPT !.items = r.items])

\* ------------------------------------------------------------ bounds of the run
Idle == loaded /\ inTask = NoTask

\* nothing of the client is in flight: no open or connecting socket, no close
\* event or reconnect timeout pending
AtRest ==
    /\ Idle
    /\ socket = "CLOSED"
    /\ timers = EmptyBag
    /\ stale = EmptyBag

\* closing this.socket leaves one more socket with its close event pending
CanSupersede ==
    socket \in {"CONNECTING", "OPEN"} => BagCardinality(stale) < MaxStale

\* a close event with this code may leave one more reconnect timeout pending
CanSchedule(code) ==
    (code # CLEAN /\ reconnectAttempts < maxReconnectAttempts)
        => BagCardinality(timers) < MaxTimers

\* a run of failures starts: the connection this.socket is lost or fails with
\* the attempt counter at 0 and nothing else of the client pending
RunStarts(code) ==
    /\ code # CLEAN
    /\ reconnectAttempts = 0
    /\ timers = EmptyBag
    /\ stale = EmptyBag

CanOpen == pingInterval = "active" => orphanIntervals < MaxOrphans

\* ------------------------------------------------------------ initial state
\* new WebSocketClient(), before DOMContentLoaded
Init ==
    /\ loaded = FALSE
    /\ socket = "null"
    /\ stale = EmptyBag
    /\ isConnected = FALSE
    /\ reconnectAttempts = 0
    /\ timers = EmptyBag
    /\ pingInterval = "undefined"
    /\ orphanIntervals = 0
    /\ statusUI = "initial"
    /\ handlers = [t \in MessageTypes |-> <<>>]
    /\ inTask = NoTask
    /\ openedBy = "none"
    /\ streak = -1
    /\ last = NoEvent
    /\ markers = NewPage.markers
    /\ layers = NewPage.layers
    /\ zonePolygons = NewPage.zonePolygons
    /\ sidebar = NewPage.sidebar
    /\ demandData = NewPage.demandData
    /\ mapLoad = "none"
    /\ sample = NoSample

\* ------------------------------------------------------------ actions
\* the DOMContentLoaded listeners of websocket.js, map.js and ui.js
DOMContentLoaded ==
    /\ ~loaded
    /\ mapLoad' = "zones"
    /\ UNCHANGED <<page, sample>>
    /\ loaded' = TRUE
    /\ ConnectBody
    /\ handlers' = RegisterAll(handlers, Registrations)
    /\ last' = Event("DOMContentLoaded", "none", 0)
    /\ UNCHANGED <<isConnected, reconnectAttempts, timers, pingInterval,
                   orphanIntervals, statusUI, inTask>>
    /\ openedBy' = "load"
    /\ UNCHANGED streak

\* wsClient.connect() called by the host
Connect ==
    /\ UNCHANGED <<page, mapLoad, sample>>
    /\ Idle
    /\ CanSupersede
    /\ ConnectBody
    /\ last' = Event("connect", "none", 0)
    /\ UNCHANGED <<loaded, isConnected, reconnectAttempts, timers, pingInterval,
                   orphanIntervals, statusUI, handlers, inTask>>
    /\ openedBy' = IF AtRest THEN "hostFromRest" ELSE "host"
    /\ streak' = -1

\* the visibilitychange listener, the page having become visible
VisibilityChange ==
    /\ UNCHANGED <<page, mapLoad, sample>>
    /\ Idle
    /\ IF ~isConnected
       THEN CanSupersede /\ ConnectBody
       ELSE UNCHANGED <<socket, stale>>
    /\ last' = Event("visibilitychange", "none", 0)
    /\ UNCHANGED <<loaded, isConnected, reconnectAttempts, timers, pingInterval,
                   orphanIntervals, statusUI, handlers, inTask>>
    /\ openedBy' = IF isConnected THEN openedBy
                   ELSE IF AtRest THEN "hostFromRest" ELSE "host"
    /\ streak' = IF isConnected THEN streak ELSE -1

\* wsClient.disconnect()
Disconnect ==
    /\ UNCHANGED <<page, mapLoad, sample>>
    /\ Idle
    /\ CanSupersede
    /\ stale' = IF socket \in {"CONNECTING", "OPEN"}
                THEN stale (+) SetToBag({CloseEventCode(socket, CLEAN)})
                ELSE stale
    /\ socket' = "null"
    /\ ClearPingInterval
    /\ isConnected' = FALSE
    /\ UpdateConnectionStatus(FALSE)
    /\ last' = Event("disconnect", "none", 0)
    /\ UNCHANGED <<loaded, reconnectAttempts, timers, orphanIntervals, handlers,
                   inTask>>
    /\ openedBy' = "none"
    /\ streak' = -1

\* the transport of this.socket is established: its open event
TransportEstablished ==
    /\ UNCHANGED <<page, mapLoad, sample>>
    /\ Idle
    /\ socket = "CONNECTING"
    /\ CanOpen
    /\ socket' = "OPEN"
    /\ OnOpen
    /\ last' = Event("onOpen", "socket", 0)
    /\ UNCHANGED <<loaded, stale, timers, handlers, inTask>>
    /\ streak' = -1
    /\ UNCHANGED openedBy

\* the server closes this.socket with a close frame: its close event
SocketClosed(code) ==
    /\ UNCHANGED <<page, mapLoad, sample>>
    /\ Idle
    /\ socket = "OPEN"
    /\ CanSchedule(code)
    /\ socket' = "CLOSED"
    /\ OnClose(code)
    /\ last' = Event("onClose", "socket", code)
    /\ streak' = IF RunStarts(code) THEN 0 ELSE streak
    /\ UNCHANGED <<loaded, stale, orphanIntervals, handlers, inTask, openedBy>>

\* the connection of this.socket fails (never established, or lost): its error
\* event; its close event follows in the same task
SocketFailed ==
    /\ UNCHANGED <<page, mapLoad, sample>>
    /\ Idle
    /\ socket \in {"CONNECTING", "OPEN"}
    /\ CanSchedule(1006)
    /\ socket' = "CLOSED"
    /\ OnError
    /\ inTask' = [src |-> "socket", code |-> 1006]
    /\ last' = Event("onError", "socket", 0)
    /\ UNCHANGED <<loaded, stale, isConnected, reconnectAttempts, timers,
                   pingInterval, orphanIntervals, handlers>>
    /\ UNCHANGED <<openedBy, streak>>

\* the close handshake of a superseded socket ends: its close event
StaleClosed(code) ==
    /\ UNCHANGED <<page, mapLoad, sample>>
    /\ Idle
    /\ BagIn(code, stale)
    /\ ~FailedClose(code)
    /\ CanSchedule(code)
    /\ stale' = stale (-) SetToBag({code})
    /\ OnClose(code)
    /\ last' = Event("onClose", "stale", code)
    /\ UNCHANGED <<loaded, socket, orphanIntervals, handlers, inTask>>
    /\ UNCHANGED <<openedBy, streak>>

\* a superseded socket that was closed while connecting: its error event
StaleFailed ==
    /\ UNCHANGED <<page, mapLoad, sample>>
    /\ Idle
    /\ BagIn(1006, stale)
    /\ CanSchedule(1006)
    /\ stale' = stale (-) SetToBag({1006})
    /\ OnError
    /\ inTask' = [src |-> "stale", code |-> 1006]
    /\ last' = Event("onError", "stale", 0)
    /\ UNCHANGED <<loaded, socket, isConnected, reconnectAttempts, timers,
                   pingInterval, orphanIntervals, handlers>>
    /\ UNCHANGED <<openedBy, streak>>

\* the close event that follows an error event
CloseAfterError ==
    /\ UNCHANGED <<page, mapLoad, sample>>
    /\ loaded
    /\ UNCHANGED loaded
    /\ inTask # NoTask
    /\ OnClose(inTask.code)
    /\ inTask' = NoTask
    /\ last' = Event("onClose", inTask.src, inTask.code)
    /\ streak' = IF inTask.src = "socket" /\ RunStarts(inTask.code) THEN 0 ELSE streak
    /\ UNCHANGED <<socket, stale, orphanIntervals, handlers, openedBy>>

\* the setTimeout callback of attemptReconnect with a fault: it does not call
\* connect()
ReconnectTimerDropped(t) ==
    /\ UNCHANGED <<page, mapLoad, sample>>
    /\ Idle
    /\ BagIn(t, timers)
    /\ CanSupersede
    /\ timers' = timers (-) SetToBag({t})
    /\ last' = Event("reconnectTimer", "none", 0)
    /\ UNCHANGED <<loaded, socket, stale, isConnected, reconnectAttempts,
                   pingInterval, orphanIntervals, statusUI, handlers, inTask,
                   openedBy, streak>>

\* a timeout set by attemptReconnect fires
ReconnectTimerFires(t) ==
    /\ UNCHANGED <<page, mapLoad, sample>>
    /\ Idle
    /\ BagIn(t, timers)
    /\ CanSupersede
    /\ timers' = timers (-) SetToBag({t})
    /\ ConnectBody
    /\ last' = Event("reconnectTimer", "none", 0)
    /\ UNCHANGED <<loaded, isConnected, reconnectAttempts, pingInterval,
                   orphanIntervals, statusUI, handlers, inTask>>
    /\ openedBy' = "timer"
    /\ streak' = IF streak >= 0 /\ streak <= maxReconnectAttempts
                 THEN streak + 1 ELSE streak

\* an interval set by startPingInterval ticks
HeartbeatTick ==
    /\ UNCHANGED <<page, mapLoad, sample>>
    /\ Idle
    /\ pingInterval = "active" \/ orphanIntervals > 0
    /\ last' = [Event("heartbeat", "none", 0) EXCEPT
                    !.send = PingOutcome.send, !.escaped = PingOutcome.escaped]
    /\ UNCHANGED <<loaded, inTask>>
    /\ UNCHANGED client
    /\ UNCHANGED <<openedBy, streak>>

\* a frame arrives on a socket that is open, or was until its close() call
OnMessage(raw) ==
    /\ Idle
    /\ socket = "OPEN" \/ BagIn(1005, stale) \/ BagIn(CLEAN, stale)
    /\ last' = [Event("onMessage", "none", 0) EXCEPT
                    !.frame = raw,
                    !.calls = OnMessageRun(handlers, raw).calls,
                    !.escaped = OnMessageRun(handlers, raw).escaped]
    /\ SetPage(ApplyCalls(OnMessageRun(handlers, raw).calls, Page,
                          ParseJSON(raw).message))
    /\ UNCHANGED <<mapLoad, sample>>
    /\ UNCHANGED <<loaded, inTask>>
    /\ UNCHANGED client
    /\ UNCHANGED <<openedBy, streak>>

\* the DOMContentLoaded listener of websocket.js on a page without map.js and
\* ui.js
ClientLoaded ==
    /\ ~loaded
    /\ loaded' = TRUE
    /\ ConnectBody
    /\ last' = Event("DOMContentLoaded", "none", 0)
    /\ openedBy' = "load"
    /\ UNCHANGED <<isConnected, reconnectAttempts, timers, pingInterval,
                   orphanIntervals, statusUI, handlers, inTask, streak>>
    /\ UNCHANGED <<page, mapLoad, sample>>

\* wsClient.addMessageHandler(type, handler) called by a script of the page
AddHandler(type, handler) ==
    /\ inTask = NoTask
    /\ type \in DOMAIN handlers => Len(handlers[type]) < MaxHandlers
    /\ handlers' = AddMessageHandler(handlers, type, handler)
    /\ last' = Event("addMessageHandler", "none", 0)
    /\ UNCHANGED <<loaded, socket, stale, isConnected, reconnectAttempts, timers,
                   pingInterval, orphanIntervals, statusUI, inTask, openedBy, streak>>
    /\ UNCHANGED <<page, mapLoad, sample>>

\* render<Domain>(items) of loadInitialData
Render(domain, pg, items) ==
    CASE domain = "zones" -> RenderZones(pg, items)
      [] domain = "drivers" -> RenderDrivers(pg, items)
      [] domain = "requests" -> RenderRequests(pg, items)

\* the fetch loadInitialData goes on to
FetchAfter(domain) ==
    CASE domain = "zones" -> "drivers"
      [] domain = "drivers" -> "requests"
      [] domain = "requests" -> "done"

\* loadInitialData resumes with the response it awaits: an ok one is rendered,
\* one that is not ok is skipped, and a fetch that rejects is taken by the
\* catch clause, which ends the load
SnapshotArrives(resp) ==
    /\ Idle
    /\ resp.domain = mapLoad
    /\ IF resp.outcome = "ok"
       THEN SetPage(Render(mapLoad, Page, resp.items))
       ELSE UNCHANGED page
    /\ mapLoad' = IF resp.outcome = "failed" THEN "done" ELSE FetchAfter(mapLoad)
    /\ last' = [Event("snapshot", mapLoad, 0) EXCEPT
                    !.frame = [json |-> TRUE, type |-> mapLoad,
                               data |-> resp.outcome, items |-> resp.items]]
    /\ UNCHANGED <<loaded, inTask, openedBy, streak, sample>>
    /\ UNCHANGED client

\* uiController.updateZoneStats({zones: sample})
ShowZoneStats ==
    /\ sample.kind = "zones"
    /\ SetPage(UpdateZoneStats(Page, sample.items))
    /\ last' = Event("updateZoneStats", "none", 0)
    /\ UNCHANGED <<loaded, inTask, openedBy, streak, mapLoad, sample>>
    /\ UNCHANGED client

\* mapController.updateDriverList(sample): the array is sorted in place
ShowDriverList ==
    /\ sample.kind = "drivers"
    /\ SetPage([Page EXCEPT !.sidebar.driverList = UpdateDriverList(sample.items)])
    /\ sample' = [sample EXCEPT !.items = SortWith(@, "AvailableFirst")]
    /\ last' = Event("updateDriverList", "none", 0)
    /\ UNCHANGED <<loaded, inTask, openedBy, streak, mapLoad>>
    /\ UNCHANGED client

\* mapController.updateRequests({requests: sample})
ShowRequests ==
    /\ sample.kind = "requests"
    /\ SetPage(UpdateRequests(Page, sample.items))
    /\ last' = Event("updateRequests", "none", 0)
    /\ UNCHANGED <<loaded, inTask, openedBy, streak, mapLoad, sample>>
    /\ UNCHANGED client

\* the events of the connection: those of the transport and the timers, and
\* the calls of the host
Next ==
    \/ DOMContentLoaded
    \/ Connect
    \/ VisibilityChange
    \/ Disconnect
    \/ TransportEstablished
    \/ \E code \in ServerCloseCodes : SocketClosed(code)
    \/ SocketFailed
    \/ \E code \in BagToSet(stale) : StaleClosed(code)
    \/ StaleFailed
    \/ CloseAfterError
    \/ \E t \in BagToSet(timers) : ReconnectTimerFires(t)
    \/ HeartbeatTick

Spec == Init /\ [][Next]_vars

\* the page as the repository runs it: connect() is called by the listeners of
\* DOMContentLoaded and visibilitychange and by the reconnect timeouts,
\* disconnect() by nobody, and frames arrive
NextStream ==
    \/ DOMContentLoaded
    \/ VisibilityChange
    \/ TransportEstablished
    \/ \E code \in ServerCloseCodes : SocketClosed(code)
    \/ SocketFailed
    \/ \E code \in BagToSet(stale) : StaleClosed(code)
    \/ StaleFailed
    \/ CloseAfterError
    \/ \E t \in BagToSet(timers) : ReconnectTimerFires(t)
    \/ HeartbeatTick
    \/ \E raw \in RawFrames : OnMessage(raw)

SpecStream == Init /\ [][NextStream]_vars

\* the page while nobody calls disconnect(), its timers fair: a timeout that
\* is pending fires, and the close event of a failed connection follows its
\* error event
NextFair ==
    \/ DOMContentLoaded
    \/ Connect
    \/ VisibilityChange
    \/ TransportEstablished
    \/ \E code \in ServerCloseCodes : SocketClosed(code)
    \/ SocketFailed
    \/ \E code \in BagToSet(stale) : StaleClosed(code)
    \/ StaleFailed
    \/ CloseAfterError
    \/ \E t \in BagToSet(timers) : ReconnectTimerFires(t)
    \/ HeartbeatTick

SpecFair ==
    /\ Init
    /\ [][NextFair]_vars
    /\ WF_vars(\E t \in BagToSet(timers) : ReconnectTimerFires(t))
    /\ WF_vars(CloseAfterError)

\* the client on a page that registers handlers one by one, with the frames
\* it is sent while the socket is open
NextRouter ==
    \/ ClientLoaded
    \/ \E reg \in HostRegistrations : AddHandler(reg[1], reg[2])
    \/ TransportEstablished
    \/ \E raw \in RouterFrames : OnMessage(raw)

SpecRouter == Init /\ [][NextRouter]_vars

\* the page with the drivers of its snapshot and of its stream
NextDrivers ==
    \/ DOMContentLoaded
    \/ TransportEstablished
    \/ \E resp \in DriverLoadResponses : SnapshotArrives(resp)
    \/ \E raw \in DriverFrames : OnMessage(raw)

SpecDrivers == Init /\ [][NextDrivers]_vars

\* the page with the requests of its snapshot and of its stream
NextRequests ==
    \/ DOMContentLoaded
    \/ TransportEstablished
    \/ \E resp \in RequestLoadResponses : SnapshotArrives(resp)
    \/ \E raw \in RequestFrames : OnMessage(raw)

SpecRequests == Init /\ [][NextRequests]_vars

\* the page with the zones of its snapshot and of its stream
NextZones ==
    \/ DOMContentLoaded
    \/ TransportEstablished
    \/ \E resp \in ZoneLoadResponses : SnapshotArrives(resp)
    \/ \E raw \in ZoneFrames : OnMessage(raw)

SpecZones == Init /\ [][NextZones]_vars

\* the projections as functions of the array they are called with
InitListed ==
    /\ loaded = FALSE
    /\ socket = "null"
    /\ stale = EmptyBag
    /\ isConnected = FALSE
    /\ reconnectAttempts = 0
    /\ timers = EmptyBag
    /\ pingInterval = "undefined"
    /\ orphanIntervals = 0
    /\ statusUI = "initial"
    /\ handlers = [t \in MessageTypes |-> <<>>]
    /\ inTask = NoTask
    /\ openedBy = "none"
    /\ streak = -1
    /\ last = NoEvent
    /\ markers = NewPage.markers
    /\ layers = NewPage.layers
    /\ zonePolygons = NewPage.zonePolygons
    /\ sidebar = NewPage.sidebar
    /\ demandData = NewPage.demandData
    /\ mapLoad = "none"
    /\ sample \in ListedZones \cup ListedDrivers \cup ListedRequests \cup ListedRecent

NextListed ==
    \/ ShowZoneStats
    \/ ShowDriverList
    \/ ShowRequests

SpecListed == InitListed /\ [][NextListed]_vars

\* ------------------------------------------------------------ claims
HostConnects == {"connect", "visibilitychange"}

\* the timers of after are those of before and exactly one more
OneMoreTimer(before, after) ==
    /\ before \sqsubseteq after
    /\ BagCardinality(after) = BagCardinality(before) + 1

\* C1: whenever onClose handles a close event: with code 1000 no reconnect
\* timeout is scheduled and the attempt counter is unchanged; with any other
\* code and the counter below 5, exactly one timeout is scheduled and the
\* counter grows by one.
C1_CloseSchedules ==
    [][ last'.op = "onClose" =>
          IF last'.code = 1000
          THEN timers' = timers /\ reconnectAttempts' = reconnectAttempts
          ELSE reconnectAttempts < 5 =>
                  /\ OneMoreTimer(timers, timers')
                  /\ reconnectAttempts' = reconnectAttempts + 1 ]_vars

C1_Witness ==
    /\ last.op = "onClose"
    /\ last.src = "socket"
    /\ last.code = 1001
    /\ reconnectAttempts = 1
    /\ BagCardinality(timers) = 1

C3_TwiceMs == <<2000, 3000, 4500, 6750, 10125>>

\* C3: every pending reconnect timeout was set for the n-th attempt, n in 1..5,
\* with the delay 1000 * 1.5^(n-1) ms; in a run of failures that started at
\* counter 0 the timeout pending after k fired ones is the (k+1)-th.
C3_BackoffDelays ==
    \A t \in BagToSet(timers) :
        /\ t.attempt \in 1..5
        /\ t.delay = 8 * C3_TwiceMs[t.attempt]
        /\ streak >= 0 => t.attempt = streak + 1

C3_Witness ==
    /\ streak = 4
    /\ \E t \in BagToSet(timers) : t.attempt = 5 /\ t.delay = 81000

\* C4: a reconnect timeout that fires right after disconnect() (so it was
\* scheduled before the call, here with no other socket in flight) opens no
\* connection: this.socket stays null.
C4_TimerAfterDisconnectIsNoOp ==
    [][ (last.op = "disconnect" /\ stale = EmptyBag /\ last'.op = "reconnectTimer") =>
            socket' = "null" ]_vars

\* C5: a connection attempt the host started with connect() while the client
\* was at rest (so also after it had given up), and that fails with nothing
\* else pending, schedules a reconnect timeout: the counter was reset by
\* connect().
C5_HostConnectRestartsBackoff ==
    [][ ( /\ last'.op = "onClose"
          /\ last'.src = "socket"
          /\ last'.code # 1000
          /\ openedBy = "hostFromRest"
          /\ timers = EmptyBag
          /\ stale = EmptyBag ) =>
            OneMoreTimer(timers, timers') ]_vars

\* C6: the close event of the socket that connect() closed while it was open
\* schedules no reconnect, leaves the attempt counter alone and does not take
\* the client out of the connected state.
C6_TeardownSchedulesNothing ==
    [][ (last'.op = "onClose" /\ last'.src = "stale" /\ last'.code = 1005) =>
            /\ timers' = timers
            /\ reconnectAttempts' = reconnectAttempts
            /\ isConnected' = isConnected ]_vars

\* C7: after disconnect() was called while connected on an open socket (the
\* only close event pending is that of its close(1000)), whatever comes next
\* short of a connect() by the host leaves the client shut down: this.socket
\* null, not connected, no ping sent, no reconnect scheduled by a close event.
C7_DisconnectStaysShutDown ==
    [][ ( /\ last.op = "disconnect"
          /\ last.wasConnected
          /\ stale = SetToBag({1000})
          /\ last'.op \notin HostConnects ) =>
            /\ socket' = "null"
            /\ ~isConnected'
            /\ last'.send # "sent"
            /\ last'.op = "onClose" =>
                  (timers' = timers /\ reconnectAttempts' = reconnectAttempts) ]_vars

C9_EveryHandlerInvoked ==
    (last.op = "onMessage" /\ last.frame.json /\ last.frame.type \in DOMAIN handlers)
        => last.calls = handlers[last.frame.type]

\* C10: a frame that is not JSON invokes no handler, lets no error out of
\* onMessage and changes nothing of the client; a valid frame that follows it
\* is dispatched as usual (zone_updates to both of its handlers, in order).
C10_MalformedFrameDropped ==
    [][ /\ (last'.op = "onMessage" /\ ~last'.frame.json) =>
              /\ last'.calls = <<>>
              /\ ~last'.escaped
              /\ UNCHANGED client
              /\ UNCHANGED <<loaded, inTask>>
        /\ ( /\ last.op = "onMessage" /\ ~last.frame.json
             /\ last'.op = "onMessage"
             /\ last'.frame = [json |-> TRUE, type |-> "zone_updates",
                               data |-> "collection", items |-> <<>>] ) =>
              /\ last'.calls = <<"map.updateZones", "ui.updateZoneStats">>
              /\ ~last'.escaped ]_vars

C10_Witness ==
    /\ last.op = "onMessage"
    /\ last.frame = NotJSON
    /\ isConnected
    /\ socket = "OPEN"

\* C11: a frame of type pong, of a type the client does not know, or of a type
\* nobody registered a handler for invokes no handler, lets no error out of
\* onMessage and changes nothing of the client or of the entities on the page.
C11_UnroutedFrameIsNoOp ==
    [][ ( /\ last'.op = "onMessage"
          /\ last'.frame.json
          /\ \/ last'.frame.type = "pong"
             \/ last'.frame.type \notin MessageTypes
             \/ handlers[last'.frame.type] = <<>> ) =>
            /\ last'.calls = <<>>
            /\ ~last'.escaped
            /\ UNCHANGED client
            /\ UNCHANGED page
            /\ UNCHANGED <<loaded, inTask, mapLoad>> ]_vars

C11_Witness ==
    /\ last.op = "onMessage"
    /\ last.frame.type = "request_updates"
    /\ last.frame.items # <<>>
    /\ handlers["request_updates"] = <<>>
    /\ handlers["driver_updates"] # <<>>
    /\ layers.drivers # <<>>
    /\ layers.requests = <<>>

\* C12: a frame is dispatched in the step that delivers it, so frames are
\* handled in delivery order; when no handler of its type throws, the calls
\* made for it are exactly the handlers registered for the type at that
\* moment, in registration order, each once, and they are given the data of
\* that frame (the request markers are those of its active requests).
C12_DispatchInOrder ==
    [][ ( /\ last'.op = "onMessage"
          /\ last'.frame.type \in MessageTypes
          /\ last'.frame.data = "collection" ) =>
            LET registered == handlers[last'.frame.type]
            IN  /\ Len(last'.calls) = Len(registered)
                /\ \A i \in 1..Len(registered) : last'.calls[i] = registered[i]
                /\ ~last'.escaped
                /\ (last'.frame.type = "request_updates" /\ registered # <<>>) =>
                      LET active == SelectSeq(last'.frame.items, IsActive)
                      IN  [i \in 1..Len(layers'.requests) |-> layers'.requests[i].of]
                              = [i \in 1..Len(active) |-> active[i].id]
        ]_vars

C12_Witness ==
    /\ last.op = "onMessage"
    /\ last.frame.type = "zone_updates"
    /\ last.frame.data = "collection"
    /\ handlers["zone_updates"] = <<"ui.updateZoneStats", "map.updateZones">>
    /\ last.calls = <<"ui.updateZoneStats", "map.updateZones">>
    /\ demandData.data # <<>>
    /\ layers.requests # <<>>

\* the identities in a collection, in a layer
IdsOf(items) == {items[i].id : i \in 1..Len(items)}
OnLayer(layer) == {layer[i].of : i \in 1..Len(layer)}

\* the frame handled last was a driver_updates message that updateDrivers applied
DriverUpdateApplied ==
    /\ last.op = "onMessage"
    /\ last.frame.type = "driver_updates"
    /\ last.frame.data = "collection"
    /\ last.calls = <<"map.updateDrivers">>

\* C13: after a driver_updates message is applied, the drivers tracked (the
\* keys of this.markers.drivers and the markers on the driver layer) are
\* exactly the drivers of that message.
C13_TrackedDriversAreThoseOfMessage ==
    DriverUpdateApplied =>
        /\ DOMAIN markers.drivers = IdsOf(last.frame.items)
        /\ OnLayer(layers.drivers) = IdsOf(last.frame.items)

\* C14: a driver_updates or request_updates message applied a second time
\* right after the first leaves the identity-to-marker maps and the layers,
\* with what every marker shows, as the first application left them.
C14_SameMessageTwice ==
    [][ ( /\ last.op = "onMessage"
          /\ last.frame.type \in {"driver_updates", "request_updates"}
          /\ last.frame.data = "collection"
          /\ last.calls # <<>>
          /\ last'.op = "onMessage"
          /\ last'.frame = last.frame ) =>
            UNCHANGED <<markers, layers>> ]_vars

\* the drivers snapshot was rendered last
DriverSnapshotRendered ==
    /\ last.op = "snapshot"
    /\ last.src = "drivers"
    /\ last.frame.data = "ok"

\* C15: after a snapshot render or a stream update of drivers, however many
\* renders and updates of the same driver came before, the marker the map
\* holds for each driver of the collection has the position, heading and
\* status of the driver's last entry in it, none of them left from before.
C15_LastPayloadWins ==
    (DriverUpdateApplied \/ DriverSnapshotRendered) =>
        LET items == last.frame.items
        IN  \A i \in 1..Len(items) :
                (\A j \in (i + 1)..Len(items) : items[j].id # items[i].id) =>
                    /\ items[i].id \in DOMAIN markers.drivers
                    /\ LET marker == layers.drivers[markers.drivers[items[i].id]]
                       IN  /\ marker.of = items[i].id
                           /\ marker.latlng = items[i].loc
                           /\ marker.heading = items[i].heading
                           /\ marker.status = items[i].status

C15_Witness ==
    /\ DriverUpdateApplied
    /\ mapLoad = "done"
    /\ Len(last.frame.items) = 2
    /\ last.frame.items[1].id = last.frame.items[2].id
    /\ last.frame.items[1].status = "busy"
    /\ last.frame.items[2].status = "available"
    /\ Len(layers.drivers) = 2
    /\ \E i \in 1..2 :
          /\ layers.drivers[i].of = last.frame.items[2].id
          /\ layers.drivers[i].status = "available"
          /\ layers.drivers[i].latlng = 1
          /\ layers.drivers[i].popup.speed = <<0>>

\* the objects on the layer are exactly the values of the map, one for each
\* identity
OnePerIdentity(map, layer) ==
    /\ {map[id] : id \in DOMAIN map} = 1..Len(layer)
    /\ \A i, j \in 1..Len(layer) : layer[i].of = layer[j].of => i = j

\* C16: in every domain the markers (polygons) on the layer are exactly the
\* values of the identity-to-marker map, and no identity has a second marker
\* on the layer, also after collections that name an identity twice.
C16_OneMarkerPerIdentity ==
    /\ OnePerIdentity(markers.drivers, layers.drivers)
    /\ OnePerIdentity(markers.requests, layers.requests)
    /\ OnePerIdentity(zonePolygons, layers.zones)

\* nothing has been written for the domain yet: its map, its layer and its
\* list are as the constructors and index.html left them
Untouched(domain) ==
    CASE domain = "drivers" ->
             /\ markers.drivers = NewPage.markers.drivers
             /\ layers.drivers = NewPage.layers.drivers
             /\ sidebar.driverList = NewPage.sidebar.driverList
      [] domain = "requests" ->
             /\ markers.requests = NewPage.markers.requests
             /\ layers.requests = NewPage.layers.requests
             /\ sidebar.requestList = NewPage.sidebar.requestList
      [] domain = "zones" ->
             /\ zonePolygons = NewPage.zonePolygons
             /\ layers.zones = NewPage.layers.zones
             /\ sidebar.surgeList = NewPage.sidebar.surgeList

\* C17: the snapshot of a domain is rendered before any stream message of the
\* domain is applied: when loadInitialData renders a snapshot, the page holds
\* nothing of that domain yet that the render could overwrite.
C17_SnapshotBeforeStream ==
    [][ (last'.op = "snapshot" /\ last'.frame.data = "ok") =>
            Untouched(last'.src) ]_vars

\* zone i of the array goes before zone j when ordered by demand, highest
\* first, zones of equal demand in the order of the array
ZoneGoesBefore(zones, i, j) ==
    \/ zones[i].demand_level > zones[j].demand_level
    \/ zones[i].demand_level = zones[j].demand_level /\ i < j

\* C18: the chart shows, for an array of zones, the zone that k others go
\* before at place k + 1, for every k below 10, and no other zone: the zones
\* by demand descending, equal demand in input order, cut to the first 10.
\* With 2 for 10, [A:3, B:9, C:9] gives [B, C].
C18_TopByDemand ==
    /\ LET A == [zone_id |-> <<"89", "A">>, demand_level |-> 3, is_surge |-> FALSE]
           B == [zone_id |-> <<"89", "B">>, demand_level |-> 9, is_surge |-> TRUE]
           C == [zone_id |-> <<"89", "C">>, demand_level |-> 9, is_surge |-> TRUE]
       IN  TopByDemand(<<A, B, C>>, 2) = <<B, C>>
    /\ last.op = "updateZoneStats" =>
          LET zones == sample.items
              before(i) == Cardinality({j \in 1..Len(zones) : ZoneGoesBefore(zones, j, i)})
              shown == IF Len(zones) < 10 THEN Len(zones) ELSE 10
          IN  /\ Len(demandData.labels) = shown
              /\ Len(demandData.data) = shown
              /\ Len(demandData.surge) = shown
              /\ \A i \in 1..Len(zones) :
                    before(i) < 10 =>
                        /\ demandData.labels[before(i) + 1] = Last4(zones[i].zone_id)
                        /\ demandData.data[before(i) + 1] = zones[i].demand_level
                        /\ demandData.surge[before(i) + 1] = zones[i].is_surge

C18_Witness ==
    /\ last.op = "updateZoneStats"
    /\ Len(sample.items) = 11
    /\ sample.items[1].demand_level = 3
    /\ sample.items[2].demand_level = 9
    /\ sample.items[3].demand_level = 3
    /\ \A i \in 4..11 : sample.items[i].demand_level = 9
    /\ demandData.labels = <<2, 4, 5, 6, 7, 8, 9, 10, 11, 1>>
    /\ demandData.data = <<9, 9, 9, 9, 9, 9, 9, 9, 9, 3>>

\* C19: of an array of requests, exactly those whose status is pending,
\* accepted or in_progress are kept, in the order of the array: so in the
\* array updateRequestList filters (before it sorts it by time), and so on the
\* request layer, whose markers are the values of this.markers.requests;
\* #requestList shows no other request.
C19_ActiveFilter ==
    last.op = "updateRequests" =>
        LET requests == sample.items
            active == {i \in 1..Len(requests) :
                          requests[i].status \in {"pending", "accepted", "in_progress"}}
            kept == ActiveRequests(requests)
            place(p) == layers.requests[p].of[2]
        IN  /\ {kept[p].id[2] : p \in 1..Len(kept)} = active
            /\ \A p \in 1..Len(kept) : kept[p] = requests[kept[p].id[2]]
            /\ \A p, q \in 1..Len(kept) : p < q => kept[p].id[2] < kept[q].id[2]
            /\ {place(p) : p \in 1..Len(layers.requests)} = active
            /\ \A p, q \in 1..Len(layers.requests) : p < q => place(p) < place(q)
            /\ DOMAIN markers.requests = {requests[i].id : i \in active}
            /\ IF active = {} THEN sidebar.requestList = NoActiveRequests
               ELSE {sidebar.requestList[p].id : p \in 1..Len(sidebar.requestList)}
                        \subseteq active

C19_Witness ==
    /\ last.op = "updateRequests"
    /\ Len(sample.items) = 3
    /\ sample.items[1].status = "pending"
    /\ sample.items[2].status = "completed"
    /\ sample.items[3].status = "accepted"
    /\ Len(layers.requests) = 2
    /\ layers.requests[1].of = <<"req", 1>>
    /\ layers.requests[2].of = <<"req", 3>>

\* the place a driver had in the array before updateDriverList sorted it
PlaceOf(driver) == driver.id[2]

\* driver a goes before driver b in the list: available ones first, the order
\* of the array otherwise
DriverGoesBefore(a, b) ==
    \/ a.status = "available" /\ b.status # "available"
    \/ (a.status = "available") = (b.status = "available") /\ PlaceOf(a) < PlaceOf(b)

\* C20: #driverList shows, for an array of drivers, every available driver
\* before every other one, the drivers of each of the two groups in the order
\* they had in the array, cut to the first 10.
C20_AvailableFirst ==
    last.op = "updateDriverList" =>
        LET drivers == {sample.items[i] : i \in 1..Len(sample.items)}
            before(d) == Cardinality({e \in drivers : DriverGoesBefore(e, d)})
        IN  /\ Len(sidebar.driverList) =
                  IF Cardinality(drivers) < 10 THEN Cardinality(drivers) ELSE 10
            /\ \A d \in drivers :
                  before(d) < 10 =>
                      sidebar.driverList[before(d) + 1] =
                          [name |-> d.name, status |-> d.status]

C20_Witness ==
    /\ last.op = "updateDriverList"
    /\ Len(sample.items) = 11
    /\ Len(sidebar.driverList) = 10
    /\ sidebar.driverList[1] = [name |-> <<"Driver", 2>>, status |-> "available"]
    /\ sidebar.driverList[2] = [name |-> <<"Driver", 4>>, status |-> "available"]
    /\ sidebar.driverList[3] = [name |-> <<"Driver", 1>>, status |-> "busy"]
    /\ sidebar.driverList[4] = [name |-> <<"Driver", 3>>, status |-> "busy"]
    /\ sidebar.driverList[10] = [name |-> <<"Driver", 10>>, status |-> "busy"]

\* the heartbeat intervals that are running
Heartbeats == (IF pingInterval = "active" THEN 1 ELSE 0) + orphanIntervals

\* C21: whenever the client reports connected the attempt counter is 0; and
\* every open event handled sets the counter to 0 and isConnected to true and
\* starts one more heartbeat interval, the one this.pingInterval refers to.
C21_ConnectedAtCounterZero ==
    /\ [](isConnected => reconnectAttempts = 0)
    /\ [][ last'.op = "onOpen" =>
              /\ reconnectAttempts' = 0
              /\ isConnected'
              /\ pingInterval' = "active"
              /\ Heartbeats' = Heartbeats + 1 ]_vars

C21_Witness ==
    /\ last.op = "onOpen"
    /\ openedBy = "timer"
    /\ isConnected
    /\ reconnectAttempts = 0
    /\ pingInterval = "active"

\* C22: a connect() call of the host leaves no reconnect timeout pending and
\* no heartbeat interval running, so that none set before the call fires on
\* the new connection; and the close event of a superseded socket changes
\* neither isConnected nor this.pingInterval nor the pending reconnect
\* timeouts.
C22_ConnectCancelsTimers ==
    [][ /\ ( \/ last'.op = "connect"
             \/ (last'.op = "visibilitychange" /\ ~last'.wasConnected) ) =>
              /\ timers' = EmptyBag
              /\ Heartbeats' = 0
        /\ (last'.op = "onClose" /\ last'.src = "stale") =>
              UNCHANGED <<isConnected, pingInterval, timers>> ]_vars

\* C23: with fair timers and no disconnect(), after this.socket closed with a
\* code other than 1000 and a reconnect timeout pending (the one the close
\* scheduled, the counter having been below 5), a new connection attempt is
\* eventually opened, this.socket a socket that is connecting; and once the
\* transport of an attempt is established the client reports connected.
C23_ReconnectsEventually ==
    /\ ( /\ last.op = "onClose"
         /\ last.src = "socket"
         /\ last.code # 1000
         /\ socket = "CLOSED"
         /\ timers # EmptyBag ) ~> (socket = "CONNECTING")
    /\ [](last.op = "onOpen" => (isConnected /\ statusUI = "connected"))

C23_Witness ==
    /\ last.op = "onOpen"
    /\ openedBy = "timer"
    /\ isConnected
    /\ statusUI = "connected"
    /\ timers = EmptyBag
    /\ stale = EmptyBag

\* the frame handled last was a request_updates message that updateRequests
\* applied
RequestUpdateApplied ==
    /\ last.op = "onMessage"
    /\ last.frame.type = "request_updates"
    /\ last.frame.data = "collection"
    /\ last.calls = <<"map.updateRequests">>

\* C24: after a request_updates message is applied, the requests tracked (the
\* keys of this.markers.requests and the markers on the request layer) are
\* exactly the requests of that message with status pending, accepted or
\* in_progress; a request tracked before that is not among them is tracked no
\* more.
C24_TrackedRequestsAreTheActiveOnes ==
    [][ RequestUpdateApplied' =>
          LET items == last'.frame.items
              active == {items[i].id :
                            i \in {j \in 1..Len(items) :
                                      items[j].status \in
                                          {"pending", "accepted", "in_progress"}}}
          IN  /\ DOMAIN markers'.requests = active
              /\ OnLayer(layers'.requests) = active
              /\ \A id \in DOMAIN markers.requests \cup OnLayer(layers.requests) :
                    id \notin active =>
                        /\ id \notin DOMAIN markers'.requests
                        /\ id \notin OnLayer(layers'.requests) ]_vars

C24_Witness ==
    /\ RequestUpdateApplied
    /\ mapLoad = "done"
    /\ Len(last.frame.items) = 2
    /\ last.frame.items[1].status = "completed"
    /\ last.frame.items[2].status = "accepted"
    /\ DOMAIN markers.requests = {<<"req", "0002">>}
    /\ OnLayer(layers.requests) = {<<"req", "0002">>}

\* C25: a zone_updates message that updateZones applied after the zones of
\* the snapshot were loaded leaves every zone it names with a polygon: a zone
\* that had none before the message (it was not in the snapshot) has one in
\* this.zonePolygons and on the zone layer after it.
C25_StreamCreatesZone ==
    [][ ( /\ mapLoad \in {"drivers", "requests", "done"}
          /\ last'.op = "onMessage"
          /\ last'.frame.type = "zone_updates"
          /\ last'.frame.data = "collection"
          /\ last'.calls = <<"map.updateZones", "ui.updateZoneStats">> ) =>
            \A i \in 1..Len(last'.frame.items) :
                LET id == last'.frame.items[i].zone_id
                IN  id \notin DOMAIN zonePolygons =>
                        /\ id \in DOMAIN zonePolygons'
                        /\ id \in OnLayer(layers'.zones) ]_vars

\* C26: the requests #requestList shows are active requests of the array,
\* each once, with its status and time; they are 5, or all the active ones
\* when those are fewer; they go newest first; and no active request left out
\* is newer than one that is shown.
C26_RecentRequests ==
    last.op = "updateRequests" =>
        LET requests == sample.items
            active == {i \in 1..Len(requests) :
                          requests[i].status \in {"pending", "accepted", "in_progress"}}
            list == sidebar.requestList
            shown == {list[p].id : p \in 1..Len(list)}
            at(p) == requests[list[p].id].created_at
        IN  active # {} =>
                /\ Len(list) <= 5
                /\ Len(list) = IF Cardinality(active) < 5 THEN Cardinality(active) ELSE 5
                /\ shown \subseteq active
                /\ Cardinality(shown) = Len(list)
                /\ \A p \in 1..Len(list) :
                      /\ list[p].status = requests[list[p].id].status
                      /\ list[p].time = at(p)
                /\ \A p, q \in 1..Len(list) : p < q => at(p) >= at(q)
                /\ \A i \in active \ shown : \A p \in 1..Len(list) :
                      requests[i].created_at <= at(p)

C26_Witness ==
    /\ last.op = "updateRequests"
    /\ Len(sample.items) = 6
    /\ \A i \in 1..6 : sample.items[i].status = "pending"
    /\ \A i \in 1..6 : sample.items[i].created_at = IF i = 4 THEN 1 ELSE 2
    /\ [p \in 1..5 |-> sidebar.requestList[p].id] = <<1, 2, 3, 5, 6>>

\* C27: making the chart, the driver list or the request list of an array
\* leaves the array as it was given, its elements in the same order.
C27_ProjectionsLeaveTheArray ==
    [][ last'.op \in {"updateZoneStats", "updateDriverList", "updateRequests"} =>
            sample' = sample ]_vars

\* C28: at most one heartbeat interval is running, and one is running only
\* while the client is connected.
C28_OneHeartbeatWhileConnected ==
    /\ Heartbeats <= 1
    /\ Heartbeats > 0 => isConnected

\* C29: at most one reconnect timeout is pending.
C29_OneReconnectTimer == BagCardinality(timers) <= 1

\* C30: a heartbeat tick that calls this.socket.send finds this.socket open,
\* and the ping is sent.
C30_PingOnOpenSocketOnly ==
    (last.op = "heartbeat" /\ last.send # "none") =>
        (socket = "OPEN" /\ last.send = "sent")

\* C31: after every event handled, #connectionStatus shows connected exactly
\* when this.isConnected is true.
C31_StatusAgreesWithFlag == (statusUI = "connected") <=> isConnected

\* C32: when the fetch of one domain's snapshot fails (a response that is not
\* ok, or a fetch that rejects), loadInitialData renders nothing for the
\* domain, lets no error out, does not fetch it again, and goes on to the
\* fetch of the next domain.
C32_SnapshotFailureIsolated ==
    [][ ( /\ last'.op = "snapshot"
          /\ last'.frame.data \in {"notOk", "failed"} ) =>
            /\ UNCHANGED page
            /\ ~last'.escaped
            /\ mapLoad' # mapLoad
            /\ mapLoad' = FetchAfter(mapLoad) ]_vars

====
